---- MODULE Spec2Model ----
(***************************************************************************)
(* dithord: Bayer ordered dithering.                                       *)
(*                                                                         *)
(*   src/src/threshold_map.rs   ThresholdMap::level, ThresholdMap::sample  *)
(*   src/src/ordered_dither.rs  OrderedDither::ordered_dither, test_pixel  *)
(*                                                                         *)
(* Numbers.  A Rust unsigned integer is modelled by the set of the         *)
(* positions of its one bits (12 = {2, 3}), so that 64-bit words and the   *)
(* wrapping of shifts can be computed exactly.  An f32 is modelled by the  *)
(* set of the (possibly negative) positions of the one bits of its binary  *)
(* expansion (0.25 = {-2}, 1.0 = {0}, 0.0 = {}): every finite f32 has      *)
(* exactly one such set, so equality of values is equality of sets.        *)
(*                                                                         *)
(* Builds.  Rust's integer overflow is decided by the build: with overflow *)
(* checks (debug) the operation panics, without them (release) shifts mask *)
(* their amount and arithmetic wraps.  `build` is chosen freely.           *)
(*                                                                         *)
(* The matrix.  ThresholdMap holds a Vec<Vec<f32>> that is never written   *)
(* after ThresholdMap::level returns.  Its cell (i, j) is the value that   *)
(* the loop body of lines 21-40 computes for (i, j), so the model keeps    *)
(* the arguments of the generation and its side in threshold_map and       *)
(* evaluates a cell where it is read (MatrixAt): matrices of side 2^13 and *)
(* 2^17 are examined without being enumerated.                             *)
(***************************************************************************)
EXTENDS Integers, Sequences, FiniteSets, TLC

\* Bounds of the exploration.
MaxLevel == 3
MaxCoord == 8
MaxPixels == 4
MaxParPixels == 3

\* Widths of the integer and float types the source uses (usize on a 64-bit
\* target).
U32Bits == 32
UsizeBits == 64
F32Precision == 24

Builds == {"debug", "release"}

\* Levels beyond the small ones: 12 (2 * power = 26 bits exceed the f32
\* significand), 16 (2 * power = 34 bits exceed the u32 shifted for `a`),
\* 63 and 64 (power reaches the width of usize).  The level-12 matrix takes
\* 256 MiB and the level-16 matrix 64 GiB; the allocation is taken to succeed.
LargeLevels == {12, 16, 63, 64}
Levels == (0..MaxLevel) \cup LargeLevels

\* Coordinates probed beyond the small ones: the corners of the level-12 and
\* level-16 matrices at which rounding and wrapping show.
LargeCoords == {4095, 4096, 8191, 65536}
Coords == (0..MaxCoord) \cup LargeCoords

-----------------------------------------------------------------------------
\* Words and floats as sets of bit positions.

\* The one bits of the natural number n (n < 2^31).
Bits(n) == {b \in 0..30 : (n \div (2^b)) % 2 = 1}

\* The natural number of a word whose bits are all below 31.
RECURSIVE ToInt(_)
ToInt(w) == IF w = {} THEN 0
            ELSE LET b == CHOOSE x \in w : TRUE IN 2^b + ToInt(w \ {b})

Max(S) == CHOOSE m \in S : \A n \in S : n <= m

\* i ^ j
Xor(v, w) == (v \ w) \cup (w \ v)

\* `as u32`: truncation to the low 32 bits.
AsU32(w) == {b \in w : b < U32Bits}

\* w * 2^e for a float or a word w.
Scale(w, e) == {b + e : b \in w}

\* The amount a shift by `amount` really shifts by when overflow checks are
\* off: the amount masked to the width of the shifted type.
EffShift(amount, width) == amount % width

\* A shift by `amount` of a `width`-bit value overflows (panics when overflow
\* checks are on).
ShiftOverflows(amount, width) == amount < 0 \/ amount >= width

\* w + 2^b, by ripple carry.
RECURSIVE AddBit(_, _)
AddBit(w, b) == IF b \in w THEN AddBit(w \ {b}, b + 1) ELSE w \cup {b}

\* `x as f32` of an unsigned integer: round to nearest, ties to even, at
\* F32Precision significant bits.
AsF32(w) ==
    IF w = {} \/ Max(w) < F32Precision THEN w
    ELSE LET lsb == Max(w) - (F32Precision - 1)
             kept == {b \in w : b >= lsb}
             rest == {b \in w : b < lsb}
             up == (lsb - 1) \in rest /\ (rest # {lsb - 1} \/ lsb \in kept)
         IN IF up THEN AddBit(kept, lsb) ELSE kept

\* a > b on floats: the highest bit in which they differ is a's.
Gt(a, b) == a # b /\ Max(Xor(a, b)) \in a

Zero == {}
One == {0}
Quarter == {-2}
\* 0.26f32 = 8724152 * 2^-25
F026 == Scale(Bits(8724152), -25)
Lumas == {Zero, Quarter, F026, One}
\* The luminances the pixels of the dithered images are drawn from.
ImageLumas == {Zero, Quarter, One}

\* `bool as u32 as f32`
BoolAsF32(b) == IF b THEN One ELSE Zero

-----------------------------------------------------------------------------
\* ThresholdMap::level

\* let power = level + 1;
PowerOf(level) == level + 1

\* let size = 1 << power;   (usize; log2 of the value)
SizeLog(power) == EffShift(power, UsizeBits)

\* The mutant of LoopBody: the first emitted bit is also taken from `a`.
LoopBodyBothA(j, a, st) ==
    [bit |-> st.bit + 2,
     mask |-> st.mask - 1,
     result |-> st.result
         \cup (IF EffShift(st.mask, U32Bits) \in a
               THEN {EffShift(st.bit, UsizeBits)} ELSE {})
         \cup (IF EffShift(st.mask, U32Bits) \in a
               THEN {EffShift(st.bit + 1, U32Bits)} ELSE {}),
     ovf |-> \/ st.ovf
             \/ ShiftOverflows(st.mask, U32Bits)
             \/ ShiftOverflows(st.bit, UsizeBits)
             \/ ShiftOverflows(st.bit + 1, U32Bits)]

\* One pass of the loop body: bit `mask` of j (a usize) goes to position
\* `bit`, bit `mask` of a (a u32) to position `bit + 1`.
LoopBody(j, a, st) ==
    [bit |-> st.bit + 2,
     mask |-> st.mask - 1,
     result |-> st.result
         \cup (IF EffShift(st.mask, UsizeBits) \in j
               THEN {EffShift(st.bit, UsizeBits)} ELSE {})
         \cup (IF EffShift(st.mask, U32Bits) \in a
               THEN {EffShift(st.bit + 1, U32Bits)} ELSE {}),
     ovf |-> \/ st.ovf
             \/ ShiftOverflows(st.mask, UsizeBits)
             \/ ShiftOverflows(st.bit, UsizeBits)
             \/ ShiftOverflows(st.mask, U32Bits)
             \/ ShiftOverflows(st.bit + 1, U32Bits)]

\* loop { if bit >= 2 * power { break; } ... }
RECURSIVE InterleaveLoop(_, _, _, _)
InterleaveLoop(j, a, power, st) ==
    IF st.bit >= 2 * power THEN st
    ELSE InterleaveLoop(j, a, power, LoopBody(j, a, st))

\* The body of the two for loops for cell (i, j): the u64 `result`, and
\* whether a shift overflowed on the way.
Interleave(power, i, j) ==
    InterleaveLoop(Bits(j), AsU32(Xor(Bits(i), Bits(j))), power,
                   [bit |-> 0, mask |-> power - 1, result |-> {}, ovf |-> FALSE])

\* size.pow(2) of the usize size = 2^sizeLog: its log2; it overflows when
\* the square does not fit usize.
PowOverflows(sizeLog) == 2 * sizeLog >= UsizeBits

\* The quotient by a zero divisor is infinite or NaN: a mark outside the
\* bit positions of finite f32 values (-149 .. 127).
NonFinite == {999}

\* *cell = result as f32 / size.pow(2) as f32;
CellValue(result, sizeLog) ==
    IF PowOverflows(sizeLog) THEN NonFinite
    ELSE Scale(AsF32(result), -(2 * sizeLog))

\* ThresholdMap::level(level) panics: some operation overflows with
\* overflow checks on.  Shift amounts do not depend on the cell, so the
\* first cell decides.
LevelPanics(level, build) ==
    /\ build = "debug"
    /\ \/ ShiftOverflows(PowerOf(level), UsizeBits)
       \/ Interleave(PowerOf(level), 0, 0).ovf
       \/ PowOverflows(SizeLog(PowerOf(level)))

\* The ThresholdMap that ThresholdMap::level(level) returns.
ThresholdMapLevel(level, build) ==
    [level |-> level, build |-> build, size |-> 2^SizeLog(PowerOf(level))]

NoMap == [level |-> -1, build |-> "none", size |-> 0]

\* The u64 `result` computed for cell (i, j) of the map.
Numerator(tm, i, j) == Interleave(PowerOf(tm.level), i, j).result

\* self.0[i][j]
MatrixAt(tm, i, j) ==
    CellValue(Numerator(tm, i, j), SizeLog(PowerOf(tm.level)))

\* An index outside the matrix panics: a mark outside the bit positions of
\* f32 values.
OutOfBounds == {-999}

\* The mutant of Sample: the lookup by [x][y] of the other revision.
SampleTransposed(tm, x, y) ==
    LET size == tm.size
        row == x % size
        col == y % size
    IN IF row < size /\ col < size THEN MatrixAt(tm, row, col) ELSE OutOfBounds

\* ThresholdMap::sample
Sample(tm, x, y) ==
    LET size == tm.size
        row == y % size
        col == x % size
    IN IF row < size /\ col < size THEN MatrixAt(tm, row, col) ELSE OutOfBounds

-----------------------------------------------------------------------------
\* ordered_dither

\* The mutant of TestPixel: a luminance equal to the threshold is on.
TestPixelGe(tm, luma, x, y) == ~Gt(Sample(tm, x, y), luma)

\* test_pixel
TestPixel(tm, luma, x, y) == Gt(luma, Sample(tm, x, y))

\* The mutant of PixelClosure: the luminance is read from the next pixel of
\* the buffer.
PixelClosureNeighbour(buf, tm, i, width) ==
    [buf EXCEPT ![i + 1] =
        BoolAsF32(TestPixel(tm, buf[((i + 1) % Len(buf)) + 1], i % width, i \div width))]

\* The closure of for_each, applied to the pixel at enumeration index i of
\* the buffer.
PixelClosure(buf, tm, i, width) ==
    [buf EXCEPT ![i + 1] =
        BoolAsF32(TestPixel(tm, buf[i + 1], i % width, i \div width))]

-----------------------------------------------------------------------------
\* The program: a level is given, the map is generated, then the map is
\* read (a cell, a sample, a pixel test) or an image is dithered with it.

VARIABLES
    level,          \* the argument of ThresholdMap::level
    build,          \* overflow checks on ("debug") or off ("release")
    pc,             \* where the run is
    threshold_map,  \* the generated ThresholdMap, NoMap before
    width,          \* self.width()
    height,         \* self.height()
    image,          \* self: the luminance of each pixel, row-major
    copy,           \* the buffer ordered_dither overwrites
    idx,            \* the enumeration index for_each has reached
    done,           \* the enumeration indices already overwritten
    probe           \* what the last read of the map returned

vars == <<level, build, pc, threshold_map, width, height, image, copy, idx, done, probe>>

NoProbe == [op |-> "none", x |-> 0, y |-> 0, luma |-> Zero,
            numerator |-> {}, value |-> Zero, on |-> FALSE]

Init ==
    /\ level \in Levels
    /\ build \in Builds
    /\ pc = "start"
    /\ threshold_map = NoMap
    /\ width = 0
    /\ height = 0
    /\ image = <<>>
    /\ copy = <<>>
    /\ idx = 0
    /\ done = {}
    /\ probe = NoProbe

\* ThresholdMap::level(level)
Level ==
    /\ pc = "start"
    /\ IF LevelPanics(level, build)
       THEN pc' = "panicked" /\ threshold_map' = NoMap
       ELSE pc' = "built" /\ threshold_map' = ThresholdMapLevel(level, build)
    /\ UNCHANGED <<level, build, width, height, image, copy, idx, done, probe>>

\* A read of cell (i, j) of the generated matrix, as the comparison of
\* construct_level reads every cell.
InspectCell(i, j) ==
    /\ pc = "built"
    /\ i < threshold_map.size
    /\ j < threshold_map.size
    /\ probe' = [NoProbe EXCEPT !.op = "cell", !.x = i, !.y = j,
                                !.numerator = Numerator(threshold_map, i, j),
                                !.value = MatrixAt(threshold_map, i, j)]
    /\ pc' = "inspected"
    /\ UNCHANGED <<level, build, threshold_map, width, height, image, copy, idx, done>>

\* map.sample(x, y)
SampleCall(x, y) ==
    /\ pc = "built"
    /\ probe' = [NoProbe EXCEPT !.op = "sample", !.x = x, !.y = y,
                                !.value = Sample(threshold_map, x, y)]
    /\ pc' = "sampled"
    /\ UNCHANGED <<level, build, threshold_map, width, height, image, copy, idx, done>>

\* test_pixel(&map, luma, x, y)
TestPixelCall(luma, x, y) ==
    /\ pc = "built"
    /\ probe' = [NoProbe EXCEPT !.op = "test", !.x = x, !.y = y, !.luma = luma,
                                !.on = TestPixel(threshold_map, luma, x, y)]
    /\ pc' = "tested"
    /\ UNCHANGED <<level, build, threshold_map, width, height, image, copy, idx, done>>

\* ordered_dither up to for_each: the image is copied as luminance.
Begin(w, h, img) ==
    /\ pc = "built"
    /\ width' = w
    /\ height' = h
    /\ image' = img
    /\ copy' = img
    /\ idx' = 0
    /\ done' = {}
    /\ pc' = "dithering"
    /\ UNCHANGED <<level, build, threshold_map, probe>>

OrderedDitherBegin ==
    \E w \in 1..MaxPixels, h \in 1..MaxPixels :
        /\ w * h <= MaxPixels
        /\ \E img \in [1..(w * h) -> ImageLumas] : Begin(w, h, img)

\* One step of copy.pixels_mut().enumerate().for_each(..): the next pixel in
\* row-major order.
DitherPixel ==
    /\ pc = "dithering"
    /\ idx < Len(copy)
    /\ copy' = PixelClosure(copy, threshold_map, idx, width)
    /\ idx' = idx + 1
    /\ done' = done \cup {idx}
    /\ UNCHANGED <<level, build, pc, threshold_map, width, height, image, probe>>

\* copy.into(): every pixel has been visited.
OrderedDitherEnd ==
    /\ pc = "dithering"
    /\ done = 0..(Len(copy) - 1)
    /\ pc' = "done"
    /\ UNCHANGED <<level, build, threshold_map, width, height, image, copy, idx, done, probe>>

Next ==
    \/ Level
    \/ \E i \in Coords, j \in Coords : InspectCell(i, j)
    \/ \E x \in Coords, y \in Coords : SampleCall(x, y)
    \/ \E luma \in Lumas, x \in Coords, y \in Coords : TestPixelCall(luma, x, y)
    \/ OrderedDitherBegin
    \/ DitherPixel
    \/ OrderedDitherEnd

Spec == Init /\ [][Next]_vars

-----------------------------------------------------------------------------
\* The same closure run by workers: the pixels are overwritten in any order,
\* one at a time (each pixel belongs to one worker).

ParDitherBegin ==
    \E w \in 1..MaxParPixels, h \in 1..MaxParPixels :
        /\ w * h <= MaxParPixels
        /\ \E img \in [1..(w * h) -> ImageLumas] : Begin(w, h, img)

WorkerPixel(i) ==
    /\ pc = "dithering"
    /\ i \in 0..(Len(copy) - 1)
    /\ i \notin done
    /\ copy' = PixelClosure(copy, threshold_map, i, width)
    /\ done' = done \cup {i}
    /\ UNCHANGED <<level, build, pc, threshold_map, width, height, image, idx, probe>>

NextPar ==
    \/ Level
    \/ ParDitherBegin
    \/ \E i \in 0..(MaxParPixels - 1) : WorkerPixel(i)
    \/ OrderedDitherEnd

SpecPar == Init /\ [][NextPar]_vars

-----------------------------------------------------------------------------
\* What the claims speak of.

Built == threshold_map # NoMap

\* The side of the map is 2^e (levels 31..62, whose side does not fit the
\* model's integers, are not among the inputs; a usize is never 2^64 or more).
SideIs(size, e) == e <= 30 /\ size = 2^e

\* The cells of the map among the probed coordinates.
CellsOf(tm) == {c \in Coords \X Coords : c[1] < tm.size /\ c[2] < tm.size}

\* The numerator as C2 words it: bit 2k is bit (power-1-k) of j, bit 2k+1 is
\* bit (power-1-k) of i XOR j.
SpecNumerator(i, j, power) ==
    {2 * k : k \in {k \in 0..(power - 1) : (power - 1 - k) \in Bits(j)}}
    \cup {2 * k + 1 : k \in {k \in 0..(power - 1) :
                              (power - 1 - k) \in Xor(Bits(i), Bits(j))}}

\* The tables of the construct_level test, over 4, 16 and 64.
Table0 == << <<0, 3>>,
             <<2, 1>> >>
Table1 == << << 0, 12,  3, 15>>,
             << 8,  4, 11,  7>>,
             << 2, 14,  1, 13>>,
             <<10,  6,  9,  5>> >>
Table2 == << << 0, 48, 12, 60,  3, 51, 15, 63>>,
             <<32, 16, 44, 28, 35, 19, 47, 31>>,
             << 8, 56,  4, 52, 11, 59,  7, 55>>,
             <<40, 24, 36, 20, 43, 27, 39, 23>>,
             << 2, 50, 14, 62,  1, 49, 13, 61>>,
             <<34, 18, 46, 30, 33, 17, 45, 29>>,
             <<10, 58,  6, 54,  9, 57,  5, 53>>,
             <<42, 26, 38, 22, 41, 25, 37, 21>> >>
Tables == <<Table0, Table1, Table2>>

\* No rounding and no overflow happens at this level: the 2 * power bits of
\* a numerator fit the f32 significand.
Exact(lv) == 2 * PowerOf(lv) <= F32Precision

\* i mod 2^e and i div 2^e for coordinates below 2^31.
ModPow2(i, e) == IF e > 30 THEN i ELSE i % (2^e)
DivPow2(i, e) == IF e > 30 THEN 0 ELSE i \div (2^e)

\* The row-major pass of the closure over pixels i .. Len(buf) - 1.
RECURSIVE SequentialFrom(_, _, _, _)
SequentialFrom(buf, tm, w, i) ==
    IF i >= Len(buf) THEN buf
    ELSE SequentialFrom(PixelClosure(buf, tm, i, w), tm, w, i + 1)

IsSymmetric(tm) ==
    \A i \in 0..(tm.size - 1), j \in 0..(tm.size - 1) :
        MatrixAt(tm, i, j) = MatrixAt(tm, j, i)

-----------------------------------------------------------------------------
\* C1: the dithered grid has the dimensions of the input, and the cell at
\* enumeration index i is on (1.0) exactly if its input luminance is strictly
\* greater than sample(i mod W, i div W), off (0.0) otherwise; pixels not yet
\* visited still hold their luminance.  With the level-3 map the threshold at
\* (1,1) is 0.25: luminance 0.25 tests off and 0.26 tests on.
C1_DitherContract ==
    /\ pc \in {"dithering", "done"} =>
        /\ Len(copy) = width * height
        /\ \A i \in 0..(Len(copy) - 1) :
              copy[i + 1] =
                 IF i \in done
                 THEN (IF Gt(image[i + 1], Sample(threshold_map, i % width, i \div width))
                       THEN One ELSE Zero)
                 ELSE image[i + 1]
    /\ pc = "done" => done = 0..(width * height - 1)
    /\ (pc = "tested" /\ level = 3 /\ probe.x = 1 /\ probe.y = 1) =>
        /\ Sample(threshold_map, 1, 1) = Quarter
        /\ probe.luma = Quarter => ~probe.on
        /\ probe.luma = F026 => probe.on

\* A 2 x 2 image dithered with the level-3 map: the pixel at (1,1) has the
\* luminance of its threshold and is off, the pixel at (0,0) is 1.0 and on.
C1_Witness ==
    /\ pc = "done"
    /\ level = 3
    /\ width = 2 /\ height = 2
    /\ image[4] = Quarter /\ copy[4] = Zero
    /\ image[1] = One /\ copy[1] = One

\* C2: cell (i, j) of the map of `level` holds n(i,j) / size^2 with
\* size = 2^(level+1) and n(i,j) the interleaving of the bits of j and of
\* i XOR j; levels 0, 1 and 2 give the tables of the construct_level test.
C2_StoredValues ==
    pc = "inspected" =>
        /\ SideIs(threshold_map.size, level + 1)
        /\ probe.value =
              Scale(SpecNumerator(probe.x, probe.y, level + 1), -(2 * (level + 1)))
        /\ level <= 2 =>
              probe.value = Scale(Bits(Tables[level + 1][probe.x + 1][probe.y + 1]),
                                  -(2 * (level + 1)))

\* C2, at the levels whose numerators fit the f32 significand (level <= 11).
C2_ExactLevels == Exact(level) => C2_StoredValues

\* C3: the map of `level` is square with side 2^(level+1), and every cell
\* lies in [0, 1): its numerator is below size^2.
C3_SquareUnitInterval ==
    /\ Built => SideIs(threshold_map.size, level + 1)
    /\ pc = "inspected" =>
        /\ probe.value # NonFinite
        /\ \A b \in probe.value : b < 0
        /\ \A b \in probe.numerator : b < 2 * (level + 1)

\* C3, at the levels whose numerators fit the f32 significand.
C3_ExactLevels == Exact(level) => C3_SquareUnitInterval

\* C4: sample(x, y) is the cell at row y mod s, column x mod s of a map of
\* side s, so it equals sample(x + s, y) and sample(x, y + s), and it never
\* indexes outside the matrix.  The cases of the sample test hold (level 2).
C4_SampleWraps ==
    pc = "sampled" =>
        LET s == threshold_map.size
            x == probe.x
            y == probe.y
        IN /\ y % s < s /\ x % s < s
           /\ probe.value # OutOfBounds
           /\ probe.value = MatrixAt(threshold_map, y % s, x % s)
           /\ probe.value = Sample(threshold_map, x + s, y)
           /\ probe.value = Sample(threshold_map, x, y + s)
           /\ level = 2 =>
               /\ (x = 0 /\ y = 0) => probe.value = Zero
               /\ (x = 2 /\ y = 3) => probe.value = Scale(Bits(36), -6)
               /\ (x = 7 /\ y = 7) => probe.value = Scale(Bits(21), -6)
               /\ (x = 8 /\ y = 8) => probe.value = Zero
               /\ (x = 6 /\ y = 8) => probe.value = Scale(Bits(15), -6)

\* sample(6, 8) on the 8 x 8 map wraps to row 0, column 6: 15/64.
C4_Witness ==
    /\ pc = "sampled"
    /\ level = 2
    /\ probe.x = 6 /\ probe.y = 8
    /\ probe.value = Scale(Bits(15), -6)

\* The level is too large for the integer types: 2^(level+1) does not fit
\* usize, the 2*(level+1) bits do not fit the u32 shifted for `a` or the u64
\* result, or size^2 does not fit usize.
LevelOverflows(lv) ==
    \/ PowerOf(lv) >= UsizeBits
    \/ 2 * PowerOf(lv) > U32Bits
    \/ 2 * PowerOf(lv) >= UsizeBits

\* C5: a level too large for the integer types fails with InvalidParameter;
\* in particular ThresholdMap::level never returns a map for it.
C5_NoMapOnOverflow == LevelOverflows(level) => ~Built

\* C6: with the map of any level, a pixel of luminance 1.0 is on and a pixel
\* of luminance 0.0 is off, so an all-1.0 grid dithers to all on and an
\* all-0.0 grid to all off.
C6_UniformGrids ==
    /\ (pc = "tested" /\ probe.luma = One) => probe.on
    /\ (pc = "tested" /\ probe.luma = Zero) => ~probe.on
    /\ (pc = "done" /\ \A i \in 1..Len(image) : image[i] = One) =>
          \A i \in 1..Len(copy) : copy[i] = One
    /\ (pc = "done" /\ \A i \in 1..Len(image) : image[i] = Zero) =>
          \A i \in 1..Len(copy) : copy[i] = Zero

\* C6, at the levels whose numerators fit the f32 significand.
C6_ExactLevels == Exact(level) => C6_UniformGrids

\* C7: whatever the order in which the pixels are overwritten, every
\* overwritten cell holds what the row-major pass over the original image
\* writes there, and every other cell still holds its luminance; so every
\* order ends in the output of the sequential pass.
C7_OrderIndependent ==
    pc \in {"dithering", "done"} =>
        /\ \A i \in 0..(Len(copy) - 1) :
              copy[i + 1] = IF i \in done
                            THEN SequentialFrom(image, threshold_map, width, 0)[i + 1]
                            ELSE image[i + 1]
        /\ pc = "done" => copy = SequentialFrom(image, threshold_map, width, 0)

\* The last of three pixels is overwritten first, and changed by it.
C7_Witness ==
    /\ pc = "dithering"
    /\ Len(copy) = 3
    /\ done = {2}
    /\ copy[3] # image[3]

\* C8: the numerator of cell (i, j) at level L >= 1 is 4 times the numerator
\* of cell (i mod h, j mod h) at level L-1 plus B[i div h][j div h], with
\* h = 2^L and B the level-0 table.
C8_Recursive ==
    (pc = "inspected" /\ level >= 1) =>
        probe.numerator =
            Scale(Numerator(ThresholdMapLevel(level - 1, build),
                            ModPow2(probe.x, level), ModPow2(probe.y, level)), 2)
            \cup Bits(Table0[DivPow2(probe.x, level) + 1][DivPow2(probe.y, level) + 1])

\* C8, at the levels at which no integer operation overflows.
C8_NoOverflow == ~LevelOverflows(level) => C8_Recursive

C10_Bijection ==
    pc = "inspected" =>
        /\ \A b \in probe.numerator : b < 2 * (level + 1)
        /\ \A c \in CellsOf(threshold_map) \ {<<probe.x, probe.y>>} :
              /\ Numerator(threshold_map, c[1], c[2]) # probe.numerator
              /\ MatrixAt(threshold_map, c[1], c[2]) # probe.value
        /\ threshold_map.size <= MaxCoord + 1 =>
              {ToInt(Numerator(threshold_map, c[1], c[2])) : c \in CellsOf(threshold_map)}
                 = 0..(threshold_map.size * threshold_map.size - 1)

\* C10, at the levels whose numerators fit the f32 significand.
C10_ExactLevels == Exact(level) => C10_Bijection

====
